---- MODULE Spec2Model ----
(***************************************************************************)
(* A model of the SAP HANA Cloud vector-store integration:                 *)
(*   HanaVectorStore  (src/dspy/retrieve/sap_hana_rm.py)                   *)
(*   SAPHanaRM        (src/dspy/retrieve/sap_hana_rm.py)                   *)
(*   the vector-store API handlers (src/dspy/frontend/api/...)             *)
(*   the frontend server's create_app (src/dspy/frontend/server.py)        *)
(*                                                                         *)
(* The module holds several specifications over one set of variables:      *)
(*   SpecStore   one HanaVectorStore on one connection: add_documents,     *)
(*               delete_document, close, the /status probe, a search       *)
(*   SpecSearch  similarity_search over every table the store can hold     *)
(*   SpecSchema  concurrent callers of HanaVectorStore._init_table         *)
(*   SpecLife    HanaVectorStore.close and SAPHanaRM.__del__               *)
(*   SpecCache   SAPHanaRM._get_embedding under functools.lru_cache        *)
(*   SpecCacheConc  _get_embedding called from several threads at once     *)
(*   SpecTable   the store's calls when the store carries them out         *)
(*   SpecApi     requests to /status, /collections and /search             *)
(*   SpecForward SAPHanaRM.forward, and the module's release and teardown  *)
(*   SpecServer  create_app and requests to /predict and /predict/stream   *)
(* An action of one specification leaves the other groups unchanged.       *)
(***************************************************************************)
EXTENDS Integers, Sequences, FiniteSets, TLC

VARIABLES
    \* ---- the connection and the table behind it (dbapi connection) ----
    committed,    \* durable table contents: id -> record, on the ids stored
    working,      \* the table as the connection's open transaction sees it
    autocommit,   \* the connection's autocommit mode (the code never sets it)
    connOpen,     \* FALSE once connection.close() was called
    pc,           \* position of the store's caller: "idle" | "adding"
    left,         \* records of the running add_documents still to be written
    opResult,     \* what the last finished operation did and returned
    closedUse,    \* a driver call was made on the connection after close()
    latest,       \* id -> the document and embedding of the last UPSERT executed
                  \* for it, on the ids no DELETE was executed for since
    \* ---- concurrent _init_table callers ----
    ipc,          \* caller -> position in _init_table
    sawExists,    \* caller -> what its table check answered
    icause,       \* caller -> why it raised: "none" | "duplicate" | "fault"
    tableExists,  \* the vector table exists in the store
    indexExists,  \* the vector index exists in the store
    \* ---- stores, modules and teardown ----
    closeCalls,   \* store -> number of connection.close() calls made
    modState,     \* module -> "unbuilt" | "live" | "deleted"
    modStore,     \* module -> the store self.vector_store names, 0 when unset
    delRaised,    \* an exception left some __del__
    closeRaised,  \* an exception left the last HanaVectorStore.close()
    \* ---- the embedding cache ----
    cache,        \* lru_cache contents, least recently used first
    embedder,     \* dspy.settings.embedder: 0 is None
    lastCall,     \* the last _get_embedding call
    prevCall,     \* the call before it
    recent,       \* the maxsize + 1 keys last used by a successful call, oldest first
    \* ---- threads inside _get_embedding ----
    flight,       \* thread -> where its _get_embedding call stands
    \* ---- the API server ----
    req,          \* request -> what it asks for and where its handler stands
    loop,         \* the request whose handler runs on the event loop, "none" if idle
    settingsStore, \* dspy.settings.vector_store: "set" (a HanaVectorStore),
                  \* "foreign" (a store object with no `connection`), or not
                  \* there: "env" when DSPY_VECTOR_STORE names sap_hana and
                  \* host, user and password are given, "envMissing" when it
                  \* names sap_hana and one of them is not, "none" otherwise
    leaked,       \* connections get_vector_store opened that no store holds
                  \* and nobody closed
    \* ---- SAPHanaRM.forward and the module's owner ----
    fwd,          \* the forward() call that runs or ran last
    held,         \* module -> "owned" | "released" (no reference is left to it
                  \* but those the interpreter keeps) | "torn" (__del__ has run)
    \* ---- the frontend server ----
    config,       \* the FrontendConfig create_app was given
    app,          \* the application create_app built
    call          \* request -> a POST to /predict or /predict/stream

storeVars  == <<committed, working, autocommit, connOpen, pc, left, opResult, closedUse, latest>>
schemaVars == <<ipc, sawExists, icause, tableExists, indexExists>>
lifeVars   == <<closeCalls, modState, modStore, delRaised, closeRaised>>
cacheVars  == <<cache, embedder, lastCall, prevCall, recent>>
concVars   == <<flight>>
apiVars    == <<req, loop, settingsStore, leaked>>
fwdVars    == <<fwd, held>>
srvVars    == <<config, app, call>>
vars       == <<storeVars, schemaVars, lifeVars, cacheVars, concVars, apiVars, fwdVars, srvVars>>

(***************************************************************************)
(* Bounds of the model.                                                    *)
(***************************************************************************)
\* longest batch add_documents is called with
MaxBatch == 2
\* largest k of a similarity search
MaxK == 2
\* callers that run _init_table at the same time, each on its own connection
NumCallers == 3
\* SAPHanaRM objects
NumModules == 2
\* explicit HanaVectorStore.close() calls made on one store
MaxCloses == 2
\* texts that are embedded
MaxTexts == 3
\* capacity of the embedding cache: stands for lru_cache(maxsize=1024)
maxsize == 2
\* connections that are left open before the store stops accepting new ones
MaxLeaked == 2

(***************************************************************************)
(* Values.                                                                 *)
(***************************************************************************)
\* the store's vector dimension (HanaVectorStore.__init__, dimension=...),
\* two as in the toy vectors of the specification's scenario
dimension == 2

Ids == {"d1", "d2"}

\* embeddings of the configured dimension, and one that is too short
Vectors == {<<1, 0>>, <<0, 1>>, <<1, 1>>}
BadVectors == {<<1>>}
\* the embeddings add_documents is called with in SpecStore
StoreEmbeddings == {<<1, 0>>, <<0, 1>>, <<1>>}

\* A metadata blob is a string, modelled as its sequence of tokens.
\* json.dumps({"source": v}) and str({"source": v}) differ in their quotes.
JsonBlob(v) == <<"{", "dq", v, "dq", "}">>
ReprBlob(v) == <<"{", "sq", v, "sq", "}">>

\* the documents callers hand to add_documents: id, text and metadata
DocBodies ==
    { [text |-> "x", metadata |-> JsonBlob("a")],
      [text |-> "y", metadata |-> ReprBlob("b")] }
Docs == { [id |-> i, text |-> b.text, metadata |-> b.metadata] : i \in Ids, b \in DocBodies }

Min(a, b) == IF a <= b THEN a ELSE b

(***************************************************************************)
(* The table.  A table is a function from the ids it holds to records.     *)
(* Each record carries, beside its columns, the field `call`: how the      *)
(* add_documents call that wrote it ended: "cur" while it runs, then "ok", *)
(* "failed" (an execute of the batch raised) or "uncommitted" (commit()    *)
(* raised).  The field is bookkeeping of the model, not a column.          *)
(***************************************************************************)
EmptyTable == [x \in {} |-> 0]

Rec(doc, emb) ==
    [text |-> doc.text, vector |-> emb, metadata |-> doc.metadata, call |-> "cur"]

\* (mutant) a record whose id is in the table is left as it is
UpsertKeepsOld(t, id, rec) == [x \in DOMAIN t \cup {id} |-> IF x \in DOMAIN t THEN t[x] ELSE rec]

\* UPSERT ... VALUES (?, ?, ?, ?): insert or replace by primary key
Upsert(t, id, rec) == [x \in DOMAIN t \cup {id} |-> IF x = id THEN rec ELSE t[x]]

\* (mutant) DELETE with a condition that holds for every row when no row has the id
RemoveLoose(t, id) == IF id \in DOMAIN t THEN [x \in DOMAIN t \ {id} |-> t[x]] ELSE EmptyTable

\* DELETE FROM ... WHERE id = ?
Remove(t, id) == [x \in DOMAIN t \ {id} |-> t[x]]

\* the running call ended: its records are marked with how
Retag(t, tag) ==
    [x \in DOMAIN t |-> IF t[x].call = "cur" THEN [t[x] EXCEPT !.call = tag] ELSE t[x]]

\* the vector column is REAL ARRAY(dimension): the store refuses another length
StoreRejects(emb) == Len(emb) # dimension

\* What an operation did and returned.  driver: it made a call on the
\* connection; counts: the lengths add_documents was called with; wrongDim: a
\* vector of another length than the column's was handed to cursor.execute;
\* missing: the id delete_document was called with when no row had it;
\* cursorOpen: the operation ended without calling close() on the cursor it
\* had opened.
IdleResult ==
    [op |-> "none", outcome |-> "none", qv |-> <<>>, k |-> 0, filter |-> "None",
     fault |-> FALSE, results |-> <<>>, driver |-> FALSE, counts |-> <<0, 0>>,
     wrongDim |-> FALSE, missing |-> "none", cursorOpen |-> FALSE]

\* the table of what was upserted, for a table of records
Inputs(t) ==
    [x \in DOMAIN t |->
        [doc |-> [id |-> x, text |-> t[x].text, metadata |-> t[x].metadata],
         emb |-> t[x].vector]]
Result(op, outcome) == [IdleResult EXCEPT !.op = op, !.outcome = outcome, !.driver = TRUE]

(***************************************************************************)
(* similarity_search: the statement, its placeholders and its bindings.    *)
(***************************************************************************)
\* filter_dict values: None, the empty dict, {"source": "a"}, {"source": "b"}
Filters == {"None", "{}", "a", "b"}
\* `if filter_dict:` is false for None and for an empty dict
Truthy(f) == f \notin {"None", "{}"}

\* f"%{filter_dict}%": the dict's str() between two wildcards
Pattern(f) == <<"%">> \o ReprBlob(f) \o <<"%">>

IntParam(n) == [t |-> "int", v |-> n]
StrParam(s) == [t |-> "str", v |-> s]
VecParam(q) == [t |-> "vec", v |-> q]

\* (mutant) the LIMIT is passed one too large
ParamsOffByOne(k, f) ==
    IF Truthy(f) THEN <<IntParam(k + 1), StrParam(Pattern(f))>> ELSE <<IntParam(k + 1)>>

\* params = [k]; params.append(pattern) when a filter is given
Params(k, f) ==
    IF Truthy(f) THEN <<IntParam(k), StrParam(Pattern(f))>> ELSE <<IntParam(k)>>

\* cursor.execute(query, [query_vector, *params])
Args(qv, k, f) == <<VecParam(qv)>> \o Params(k, f)

\* the ? marks of the statement in the order of its text:
\* COSINE_SIMILARITY(vector, ?), [WHERE metadata LIKE ?], LIMIT ?
Placeholders(f) ==
    IF Truthy(f) THEN <<"similarity", "like", "limit">> ELSE <<"similarity", "limit">>

\* the argument a placeholder receives: arguments bind by position
Bound(name, qv, k, f) ==
    LET ph == Placeholders(f)
        i  == CHOOSE j \in 1..Len(ph) : ph[j] = name
    IN  Args(qv, k, f)[i]

Digits == <<"0", "1", "2", "3", "4", "5", "6", "7", "8", "9">>
\* the text a bound value has where the store wants a string
AsText(p) ==
    IF p.t = "str" THEN p.v
    ELSE IF p.t = "int" THEN <<Digits[p.v + 1]>>
    ELSE <<"array">>

IsSubstr(p, s) ==
    \E i \in 0..(Len(s) - Len(p)) : SubSeq(s, i + 1, i + Len(p)) = p

\* s LIKE p, for the patterns the code builds: %x% or a text with no wildcard
Like(s, p) ==
    IF Len(p) >= 2 /\ p[1] = "%" /\ p[Len(p)] = "%"
    THEN IsSubstr(SubSeq(p, 2, Len(p) - 1), s)
    ELSE s = p

RECURSIVE DotUpTo(_, _, _)
DotUpTo(a, b, n) == IF n = 0 THEN 0 ELSE a[n] * b[n] + DotUpTo(a, b, n - 1)
Dot(a, b) == DotUpTo(a, b, Len(a))

\* COSINE_SIMILARITY(a, q) as the exact fraction <<n, d>> = sign(a.q) (a.q)^2 / (|a|^2 |q|^2),
\* which orders as the cosine does
Score(a, q) ==
    LET d == Dot(a, q)
    IN  <<(IF d < 0 THEN -1 ELSE 1) * d * d, Dot(a, a) * Dot(q, q)>>
ScoreGE(s1, s2) == s1[1] * s2[2] >= s2[1] * s1[2]
MaxScore(s) == s[1] = s[2]
\* two vectors point the same way: their cosine similarity is the largest there is
SameDirection(a, b) == MaxScore(Score(a, b))

\* the store accepts the statement: a vector of the column's length for the
\* similarity operator and a non-negative integer for LIMIT
StatementOK(qv, k, f) ==
    /\ Bound("similarity", qv, k, f).t = "vec"
    /\ Len(Bound("similarity", qv, k, f).v) = dimension
    /\ Bound("limit", qv, k, f).t = "int"
    /\ Bound("limit", qv, k, f).v >= 0

\* the rows the WHERE clause keeps
Matching(t, qv, k, f) ==
    { id \in DOMAIN t :
        Truthy(f) => Like(t[id].metadata, AsText(Bound("like", qv, k, f))) }

Row(t, id, q) ==
    [id |-> id, text |-> t[id].text, metadata |-> t[id].metadata,
     score |-> Score(t[id].vector, q)]

\* (mutant) ORDER BY score, ascending
RankedWorstFirst(t, ids, q, n) ==
    LET len == Min(n, Cardinality(ids))
    IN  { s \in [1..len -> { Row(t, id, q) : id \in ids }] :
            /\ \A i, j \in 1..len : i < j => s[i].id # s[j].id /\ ScoreGE(s[j].score, s[i].score)
            /\ \A id \in ids :
                 (\A i \in 1..len : s[i].id # id) =>
                     \A i \in 1..len : ScoreGE(Score(t[id].vector, q), s[i].score) }

\* ORDER BY score DESC LIMIT n over the rows `ids`: every answer the store may
\* give (ties are in the store's order)
Ranked(t, ids, q, n) ==
    LET len == Min(n, Cardinality(ids))
    IN  { s \in [1..len -> { Row(t, id, q) : id \in ids }] :
            /\ \A i, j \in 1..len : i < j => s[i].id # s[j].id /\ ScoreGE(s[i].score, s[j].score)
            /\ \A id \in ids :
                 (\A i \in 1..len : s[i].id # id) =>
                     \A i \in 1..len : ScoreGE(s[i].score, Score(t[id].vector, q)) }

\* fetchall() of the statement as the code binds it
SearchRows(t, qv, k, f) ==
    Ranked(t, Matching(t, qv, k, f), Bound("similarity", qv, k, f).v,
           Bound("limit", qv, k, f).v)

(***************************************************************************)
(* HanaVectorStore on one connection.  One caller at a time (pc): the      *)
(* operations of this specification do not interleave.                     *)
(***************************************************************************)
\* connection.cursor() on a connection that was closed: the call goes to the
\* driver, which raises; the operation's except clause logs and re-raises
OnClosed(op) ==
    /\ closedUse' = TRUE
    /\ opResult' = Result(op, "error")
    /\ UNCHANGED <<committed, working, autocommit, connOpen, pc, left, latest>>

\* (mutant) the lengths are compared after connection.cursor()
AddDocumentsCallLate(nDocs, nEmbs) ==
    /\ pc = "idle"
    /\ IF ~connOpen
       THEN OnClosed("add")
       ELSE IF nDocs # nEmbs
       THEN /\ opResult' = [Result("add", "ValueError") EXCEPT !.counts = <<nDocs, nEmbs>>]
            /\ UNCHANGED <<committed, working, autocommit, connOpen, pc, left, closedUse, latest>>
       ELSE /\ pc' = "adding"
            /\ left' = nDocs
            /\ opResult' = [Result("add", "running") EXCEPT !.counts = <<nDocs, nEmbs>>]
            /\ UNCHANGED <<committed, working, autocommit, connOpen, closedUse, latest>>
    /\ UNCHANGED <<schemaVars, lifeVars, cacheVars, concVars, apiVars, fwdVars, srvVars>>

\* add_documents, from the call to the first record: the length check, then
\* connection.cursor().  The records themselves are drawn as the loop reaches
\* them (AddDocumentsExecute): nobody reads the batch before.
AddDocumentsCall(nDocs, nEmbs) ==
    /\ pc = "idle"
    /\ IF nDocs # nEmbs
       THEN /\ opResult' = [Result("add", "ValueError") EXCEPT
                              !.counts = <<nDocs, nEmbs>>, !.driver = FALSE]
            /\ UNCHANGED <<committed, working, autocommit, connOpen, pc, left, closedUse, latest>>
       ELSE IF ~connOpen
       THEN OnClosed("add")
       ELSE /\ pc' = "adding"
            /\ left' = nDocs
            /\ opResult' = [Result("add", "running") EXCEPT !.counts = <<nDocs, nEmbs>>]
            /\ UNCHANGED <<committed, working, autocommit, connOpen, closedUse, latest>>
    /\ UNCHANGED <<schemaVars, lifeVars, cacheVars, concVars, apiVars, fwdVars, srvVars>>

\* one turn of the loop: cursor.execute(insert_query, (doc_id, text, emb, metadata)).
\* The loop hands every record to the driver as it is.  When execute raises,
\* the except clause logs and re-raises: nothing is rolled back.
AddDocumentsExecute(doc, emb, fault) ==
    /\ pc = "adding"
    /\ left > 0
    /\ IF fault \/ StoreRejects(emb)
       THEN /\ working' = Retag(working, "failed")
            /\ committed' = Retag(committed, "failed")
            /\ pc' = "idle"
            /\ left' = 0
            /\ opResult' = [Result("add", "error") EXCEPT
                              !.fault = fault, !.wrongDim = (Len(emb) # dimension),
                              !.cursorOpen = TRUE]
            /\ UNCHANGED latest
       ELSE /\ working' = Upsert(working, doc.id, Rec(doc, emb))
            /\ committed' = IF autocommit THEN Upsert(committed, doc.id, Rec(doc, emb))
                            ELSE committed
            /\ left' = left - 1
            /\ opResult' = [opResult EXCEPT !.wrongDim = (@ \/ Len(emb) # dimension)]
            /\ latest' = [x \in DOMAIN latest \cup {doc.id} |->
                            IF x = doc.id THEN [doc |-> doc, emb |-> emb] ELSE latest[x]]
            /\ UNCHANGED pc
    /\ UNCHANGED <<autocommit, connOpen, closedUse>>
    /\ UNCHANGED <<schemaVars, lifeVars, cacheVars, concVars, apiVars, fwdVars, srvVars>>

\* after the loop: self.connection.commit(); cursor.close()
AddDocumentsCommit(fault) ==
    /\ pc = "adding"
    /\ left = 0
    /\ IF fault
       THEN /\ working' = Retag(working, "uncommitted")
            /\ committed' = Retag(committed, "uncommitted")
            /\ opResult' = [Result("add", "error") EXCEPT !.fault = TRUE, !.cursorOpen = TRUE]
       ELSE /\ working' = Retag(working, "ok")
            /\ committed' = Retag(working, "ok")
            /\ opResult' = Result("add", "ok")
    /\ pc' = "idle"
    /\ UNCHANGED <<left, autocommit, connOpen, closedUse, latest>>
    /\ UNCHANGED <<schemaVars, lifeVars, cacheVars, concVars, apiVars, fwdVars, srvVars>>

\* delete_document: cursor(), execute(DELETE), commit(), cursor.close().
\* fault: the step that raises, "none" | "execute" | "commit".  The code does
\* not look at how many rows the statement deleted.
DeleteDocument(id, fault) ==
    /\ pc = "idle"
    /\ IF ~connOpen
       THEN OnClosed("delete")
       ELSE /\ working' = IF fault = "execute" THEN working ELSE Remove(working, id)
            /\ committed' =
                 IF fault = "execute" THEN committed
                 ELSE IF fault = "commit"
                 THEN (IF autocommit THEN Remove(committed, id) ELSE committed)
                 ELSE Remove(working, id)
            /\ latest' = IF fault = "execute" THEN latest
                         ELSE [x \in DOMAIN latest \ {id} |-> latest[x]]
            /\ opResult' = [Result("delete", IF fault = "none" THEN "ok" ELSE "error")
                              EXCEPT !.fault = (fault # "none"),
                                     !.cursorOpen = (fault # "none"),
                                     !.missing = IF id \in DOMAIN working
                                                 THEN "none" ELSE id]
            /\ UNCHANGED <<autocommit, connOpen, pc, left, closedUse>>
    /\ UNCHANGED <<schemaVars, lifeVars, cacheVars, concVars, apiVars, fwdVars, srvVars>>

\* similarity_search: cursor(), one execute, fetchall(), cursor.close();
\* the except clause logs and re-raises, and does not close the cursor
SimilaritySearchBody(qv, k, f, fault) ==
    /\ pc = "idle"
    /\ IF ~connOpen
       THEN OnClosed("search")
       ELSE /\ IF fault \/ ~StatementOK(qv, k, f)
               THEN opResult' = [Result("search", "error") EXCEPT
                                    !.qv = qv, !.k = k, !.filter = f, !.fault = fault,
                                    !.cursorOpen = TRUE]
               ELSE \E rows \in SearchRows(working, qv, k, f) :
                        opResult' = [Result("search", "ok") EXCEPT
                                        !.qv = qv, !.k = k, !.filter = f, !.results = rows]
            /\ UNCHANGED <<committed, working, autocommit, connOpen, pc, left, closedUse, latest>>

\* a caller of the store calls similarity_search
SimilaritySearch(qv, k, f, fault) ==
    /\ SimilaritySearchBody(qv, k, f, fault)
    /\ UNCHANGED <<schemaVars, lifeVars, cacheVars, concVars, apiVars, fwdVars, srvVars>>

\* HanaVectorStore.close(): self.connection is set and is never reset, so
\* every call reaches connection.close().  The store drops the open
\* transaction, and with it the statements executed in it.
CloseBody ==
    /\ pc = "idle"
    /\ connOpen' = FALSE
    /\ working' = committed
    /\ latest' = Inputs(committed)
    /\ opResult' = Result("close", "ok")
    /\ UNCHANGED <<committed, autocommit, pc, left, closedUse>>

\* a caller of the store calls close()
Close ==
    /\ CloseBody
    /\ UNCHANGED <<schemaVars, lifeVars, cacheVars, concVars, apiVars, fwdVars, srvVars>>

\* GET /status with the store cached in dspy.settings: cursor(),
\* execute("SELECT 1 FROM DUMMY"), cursor.close(); any exception is caught
StatusProbe(fault) ==
    /\ pc = "idle"
    /\ IF ~connOpen
       THEN /\ closedUse' = TRUE
            /\ opResult' = Result("status", "error")
       ELSE /\ opResult' = [Result("status", IF fault THEN "error" ELSE "connected")
                              EXCEPT !.fault = fault, !.cursorOpen = fault]
            /\ UNCHANGED closedUse
    /\ UNCHANGED <<committed, working, autocommit, connOpen, pc, left, latest>>
    /\ UNCHANGED <<schemaVars, lifeVars, cacheVars, concVars, apiVars, fwdVars, srvVars>>

(***************************************************************************)
(* HanaVectorStore._init_table, run by several callers at once.  Each      *)
(* statement is one step; the store runs one statement at a time.          *)
(***************************************************************************)
Callers == 1..NumCallers

\* cursor(); execute(table_check_query); exists = fetchone()[0] > 0.
\* A table that exists ends the call: log, cursor.close(), return.
InitTableCheck(c, fault) ==
    /\ ipc[c] = "start"
    /\ IF fault
       THEN /\ ipc' = [ipc EXCEPT ![c] = "raised"]
            /\ icause' = [icause EXCEPT ![c] = "fault"]
            /\ UNCHANGED sawExists
       ELSE /\ sawExists' = [sawExists EXCEPT ![c] = tableExists]
            /\ ipc' = [ipc EXCEPT ![c] = IF tableExists THEN "done" ELSE "checked"]
            /\ UNCHANGED icause
    /\ UNCHANGED <<tableExists, indexExists>>
    /\ UNCHANGED <<storeVars, lifeVars, cacheVars, concVars, apiVars, fwdVars, srvVars>>

\* execute(create_table_query): the store refuses a second table of the name;
\* the except clause logs whatever was raised and raises it again
InitTableCreate(c, fault) ==
    /\ ipc[c] = "checked"
    /\ IF tableExists \/ fault
       THEN /\ ipc' = [ipc EXCEPT ![c] = "raised"]
            /\ icause' = [icause EXCEPT ![c] = IF tableExists THEN "duplicate" ELSE "fault"]
            /\ UNCHANGED tableExists
       ELSE /\ tableExists' = TRUE
            /\ ipc' = [ipc EXCEPT ![c] = "created"]
            /\ UNCHANGED icause
    /\ UNCHANGED <<sawExists, indexExists>>
    /\ UNCHANGED <<storeVars, lifeVars, cacheVars, concVars, apiVars, fwdVars, srvVars>>

\* execute(create_index_query); log; cursor.close(); return
InitTableIndex(c, fault) ==
    /\ ipc[c] = "created"
    /\ IF indexExists \/ fault
       THEN /\ ipc' = [ipc EXCEPT ![c] = "raised"]
            /\ icause' = [icause EXCEPT ![c] = IF indexExists THEN "duplicate" ELSE "fault"]
            /\ UNCHANGED indexExists
       ELSE /\ indexExists' = TRUE
            /\ ipc' = [ipc EXCEPT ![c] = "done"]
            /\ UNCHANGED icause
    /\ UNCHANGED <<sawExists, tableExists>>
    /\ UNCHANGED <<storeVars, lifeVars, cacheVars, concVars, apiVars, fwdVars, srvVars>>

(***************************************************************************)
(* HanaVectorStore.close() and SAPHanaRM.__del__ over stores and modules.  *)
(***************************************************************************)
Stores == {1, 2}
Modules == 1..NumModules

\* connection.close() is reached when the attribute is there and truthy:
\* __init__ sets self.connection and close() leaves it as it is
CloseReaches(calls) == TRUE

\* HanaVectorStore.close() for store s: the driver's close() may raise
StoreCloseStep(s, raises) ==
    /\ closeCalls' = IF CloseReaches(closeCalls[s])
                     THEN [closeCalls EXCEPT ![s] = @ + 1] ELSE closeCalls
    /\ closeRaised' = (CloseReaches(closeCalls[s]) /\ raises)

\* a caller closes the store itself
StoreClose(s, raises) ==
    /\ closeCalls[s] < MaxCloses
    /\ StoreCloseStep(s, raises)
    /\ UNCHANGED <<modState, modStore, delRaised>>
    /\ UNCHANGED <<storeVars, schemaVars, cacheVars, concVars, apiVars, fwdVars, srvVars>>

\* SAPHanaRM.__init__: self.vector_store = vector_store or HanaVectorStore(...).
\* s = 0: the store's construction raised and the attribute was never set.
\* A supplied store may be one another module holds.
ModuleInit(m, s) ==
    /\ modState[m] = "unbuilt"
    /\ modState' = [modState EXCEPT ![m] = "live"]
    /\ modStore' = [modStore EXCEPT ![m] = s]
    /\ UNCHANGED <<closeCalls, delRaised, closeRaised>>
    /\ UNCHANGED <<storeVars, schemaVars, cacheVars, concVars, apiVars, fwdVars, srvVars>>

\* (mutant) __del__ without its try/except
DelPropagatesRaised(raised) == raised

\* what leaves __del__ when close() raised inside it: `except: pass`
DelPropagates(raised) == FALSE

\* SAPHanaRM.__del__: if hasattr(self, 'vector_store'): try close() except: pass
Del(m, raises) ==
    /\ modState[m] = "live"
    /\ modState' = [modState EXCEPT ![m] = "deleted"]
    /\ IF modStore[m] # 0
       THEN /\ StoreCloseStep(modStore[m], raises)
            /\ delRaised' = (delRaised \/ DelPropagates(closeRaised'))
       ELSE UNCHANGED <<closeCalls, closeRaised, delRaised>>
    /\ UNCHANGED modStore
    /\ UNCHANGED <<storeVars, schemaVars, cacheVars, concVars, apiVars, fwdVars, srvVars>>

(***************************************************************************)
(* SAPHanaRM._get_embedding under @lru_cache(maxsize=...).  The decorator  *)
(* wraps the method of the class: one cache for all modules, keyed by the  *)
(* call's arguments (self, text).                                          *)
(***************************************************************************)
CacheModules == {"m1"}
Texts == 1..MaxTexts
Keys == CacheModules \X Texts
\* dspy.settings.embedder: 0 is None, 1 and 2 are two embedding models
Embedders == {0, 1, 2}

\* embedder.encode([text])[0].tolist()
Embedding(e, t) == <<e, t>>

CacheKeys(c) == { c[i].key : i \in 1..Len(c) }
CacheHas(c, key) == key \in CacheKeys(c)
CacheIndex(c, key) == CHOOSE i \in 1..Len(c) : c[i].key = key
CacheGet(c, key) == c[CacheIndex(c, key)].value

RECURSIVE Without(_, _)
Without(c, key) ==
    IF c = <<>> THEN <<>>
    ELSE IF Head(c).key = key THEN Without(Tail(c), key)
    ELSE <<Head(c)>> \o Without(Tail(c), key)

\* (mutant) a hit leaves the entry's place as it is: first in, first out
CacheTouchNot(c, key) == c

\* a hit moves the entry to the most recently used end
CacheTouch(c, key) == Append(Without(c, key), [key |-> key, value |-> CacheGet(c, key)])

\* (mutant) a computed result is not stored
CacheInsertNothing(c, key, value) == c

\* (mutant) a computed result is stored without looking for its key first
CacheInsertBlind(c, key, value) ==
    IF Len(c) >= maxsize THEN Append(Tail(c), [key |-> key, value |-> value])
    ELSE Append(c, [key |-> key, value |-> value])

\* a computed result is stored, unless another caller stored one for the key
\* meanwhile; a full cache gives up its least recently used entry
CacheInsert(c, key, value) ==
    IF CacheHas(c, key) THEN c
    ELSE IF Len(c) >= maxsize THEN Append(Tail(c), [key |-> key, value |-> value])
    ELSE Append(c, [key |-> key, value |-> value])

\* (mutant) a call that raised leaves an entry for its key
CacheAfterRaisePoisoned(c, key) == CacheInsert(c, key, <<>>)

\* the cache after a call that raised: lru_cache stores results only
CacheAfterRaise(c, key) == c

NoCall == [key |-> <<"none", 0>>, ok |-> FALSE, invoked |-> FALSE, value |-> <<>>]
Call(key, ok, invoked, value) ==
    [key |-> key, ok |-> ok, invoked |-> invoked, value |-> value]

RECURSIVE DropKey(_, _)
DropKey(q, key) ==
    IF q = <<>> THEN <<>>
    ELSE IF Head(q) = key THEN DropKey(Tail(q), key)
    ELSE <<Head(q)>> \o DropKey(Tail(q), key)
\* the last n elements of q
LastN(q, n) == IF Len(q) <= n THEN q ELSE SubSeq(q, Len(q) - n + 1, Len(q))

\* module m calls self._get_embedding(t); fails: embedder.encode raises
GetEmbeddingBody(m, t, fails) ==
    LET key == <<m, t>>
    IN  /\ prevCall' = lastCall
        /\ IF CacheHas(cache, key)
           THEN /\ cache' = CacheTouch(cache, key)
                /\ lastCall' = Call(key, TRUE, FALSE, CacheGet(cache, key))
                /\ recent' = LastN(Append(DropKey(recent, key), key), maxsize + 1)
           ELSE IF embedder = 0
           THEN /\ cache' = CacheAfterRaise(cache, key)
                /\ lastCall' = Call(key, FALSE, FALSE, <<>>)
                /\ UNCHANGED recent
           ELSE IF fails
           THEN /\ cache' = CacheAfterRaise(cache, key)
                /\ lastCall' = Call(key, FALSE, TRUE, <<>>)
                /\ UNCHANGED recent
           ELSE /\ cache' = CacheInsert(cache, key, Embedding(embedder, t))
                /\ lastCall' = Call(key, TRUE, TRUE, Embedding(embedder, t))
                /\ recent' = LastN(Append(DropKey(recent, key), key), maxsize + 1)
        /\ UNCHANGED embedder

\* a caller of the module calls _get_embedding
GetEmbedding(m, t, fails) ==
    /\ GetEmbeddingBody(m, t, fails)
    /\ UNCHANGED <<storeVars, schemaVars, lifeVars, concVars, apiVars, fwdVars, srvVars>>

\* dspy.settings is configured with another embedder, or with none
SetEmbedder(e) ==
    /\ e # embedder
    /\ embedder' = e
    /\ UNCHANGED <<cache, lastCall, prevCall, recent>>
    /\ UNCHANGED <<storeVars, schemaVars, lifeVars, concVars, apiVars, fwdVars, srvVars>>

(***************************************************************************)
(* SAPHanaRM.forward(query, k): k = k or self.k, the query's embedding     *)
(* through _get_embedding, similarity_search on the module's store, and    *)
(* the rows turned into dspy.Example objects.  One step per stage.         *)
(***************************************************************************)
\* SAPHanaRM.__init__(k: int = 5): the module's own k
selfK == 5

\* the k argument of forward: None (given = FALSE) or an integer
NoK == [given |-> FALSE, v |-> 0]
KArgs == {NoK} \cup { [given |-> TRUE, v |-> n] : n \in (0 - 1)..MaxK }

\* k or self.k: None and 0 are falsy, every other integer is kept
KOrDefault(ka) == IF ~ka.given \/ ka.v = 0 THEN selfK ELSE ka.v

\* stage: "idle" before any call, "SEARCH" and "FORMAT" while the call is
\* about to run that stage, "done" when it returned, "raised" when it raised;
\* failedIn: the stage that raised.  noEmbedder: dspy.settings.embedder was
\* None when the call started; wrote: the call added an entry to the cache;
\* queried: the call reached similarity_search; out: the Examples returned.
NoForward ==
    [stage |-> "idle", m |-> "none", query |-> 0, kArg |-> NoK, k |-> 0, qv |-> <<>>,
     noEmbedder |-> FALSE, wrote |-> FALSE, queried |-> FALSE,
     failedIn |-> "none", out |-> 0]

Running == fwd.stage \in {"SEARCH", "FORMAT"}

\* forward up to the return of self._get_embedding(query)
ForwardEmbed(m, t, ka, fails) ==
    /\ held[m] = "owned"
    /\ ~Running
    /\ GetEmbeddingBody(m, t, fails)
    /\ fwd' = [NoForward EXCEPT
                 !.stage = IF lastCall'.ok THEN "SEARCH" ELSE "raised",
                 !.failedIn = IF lastCall'.ok THEN "none" ELSE "EMBED",
                 !.m = m, !.query = t, !.kArg = ka, !.k = KOrDefault(ka),
                 !.qv = lastCall'.value,
                 !.noEmbedder = (embedder = 0),
                 !.wrote = (~CacheHas(cache, <<m, t>>) /\ CacheHas(cache', <<m, t>>))]
    /\ UNCHANGED held
    /\ UNCHANGED <<storeVars, schemaVars, lifeVars, concVars, apiVars, srvVars>>

\* self.vector_store.similarity_search(query_vector, k=k)
ForwardSearch(fault) ==
    /\ fwd.stage = "SEARCH"
    /\ SimilaritySearchBody(fwd.qv, fwd.k, "None", fault)
    /\ fwd' = [fwd EXCEPT
                 !.queried = TRUE,
                 !.stage = IF opResult'.outcome = "ok" THEN "FORMAT" ELSE "raised",
                 !.failedIn = IF opResult'.outcome = "ok" THEN "none" ELSE "SEARCH"]
    /\ UNCHANGED held
    /\ UNCHANGED <<schemaVars, lifeVars, cacheVars, concVars, apiVars, srvVars>>

\* one dspy.Example per row, and the return
ForwardFormat ==
    /\ fwd.stage = "FORMAT"
    /\ fwd' = [fwd EXCEPT !.stage = "done", !.out = Len(opResult.results)]
    /\ UNCHANGED held
    /\ UNCHANGED <<storeVars, schemaVars, lifeVars, cacheVars, concVars, apiVars, srvVars>>

\* the lru_cache of the class keeps every key it holds alive, and a key is
\* the tuple of the call's arguments: (self, text)
Referenced(m) == \E i \in 1..Len(cache) : cache[i].key[1] = m

\* the owner of module m drops its last reference to it; no call runs then
Release(m) ==
    /\ held[m] = "owned"
    /\ ~(Running /\ fwd.m = m)
    /\ held' = [held EXCEPT ![m] = "released"]
    /\ UNCHANGED fwd
    /\ UNCHANGED <<storeVars, schemaVars, lifeVars, cacheVars, concVars, apiVars, srvVars>>

\* nothing refers to module m any more: the interpreter runs m.__del__(),
\* which calls self.vector_store.close()
Collect(m) ==
    /\ held[m] = "released"
    /\ ~Referenced(m)
    /\ CloseBody
    /\ held' = [held EXCEPT ![m] = "torn"]
    /\ UNCHANGED fwd
    /\ UNCHANGED <<schemaVars, lifeVars, cacheVars, concVars, apiVars, srvVars>>

(***************************************************************************)
(* _get_embedding called from several threads.  The lru_cache wrapper      *)
(* looks the key up and stores a result under its own lock, one caller at  *)
(* a time, and calls the wrapped method outside of it: callers that miss   *)
(* on one key each compute a vector.                                       *)
(***************************************************************************)
Threads == {"t1", "t2"}
Resting == [pc |-> "idle", key |-> <<"none", 0>>, value |-> <<>>]

\* thread th calls m._get_embedding(t): the wrapper's lookup
CachedLookup(th, m, t) ==
    LET key == <<m, t>>
    IN  /\ flight[th].pc \in {"idle", "returned"}
        /\ IF CacheHas(cache, key)
           THEN /\ cache' = CacheTouch(cache, key)
                /\ flight' = [flight EXCEPT ![th] =
                       [pc |-> "returned", key |-> key, value |-> CacheGet(cache, key)]]
           ELSE /\ UNCHANGED cache
                /\ flight' = [flight EXCEPT ![th] =
                       [pc |-> "computing", key |-> key, value |-> <<>>]]
        /\ UNCHANGED <<embedder, lastCall, prevCall, recent>>
        /\ UNCHANGED <<storeVars, schemaVars, lifeVars, apiVars, fwdVars, srvVars>>

\* the wrapped method runs for th: it reads the embedder and encodes the text
EncodeText(th, fails) ==
    /\ flight[th].pc = "computing"
    /\ IF embedder = 0 \/ fails
       THEN /\ cache' = CacheAfterRaise(cache, flight[th].key)
            /\ flight' = [flight EXCEPT ![th] = Resting]
       ELSE /\ UNCHANGED cache
            /\ flight' = [flight EXCEPT ![th] =
                   [@ EXCEPT !.pc = "computed",
                             !.value = Embedding(embedder, flight[th].key[2])]]
    /\ UNCHANGED <<embedder, lastCall, prevCall, recent>>
    /\ UNCHANGED <<storeVars, schemaVars, lifeVars, apiVars, fwdVars, srvVars>>

\* the wrapper stores th's result and returns it
CachedStore(th) ==
    /\ flight[th].pc = "computed"
    /\ cache' = CacheInsert(cache, flight[th].key, flight[th].value)
    /\ flight' = [flight EXCEPT ![th] = [@ EXCEPT !.pc = "returned"]]
    /\ UNCHANGED <<embedder, lastCall, prevCall, recent>>
    /\ UNCHANGED <<storeVars, schemaVars, lifeVars, apiVars, fwdVars, srvVars>>

(***************************************************************************)
(* The vector-store API (vector_store_api.py).  Every handler is an        *)
(* `async def` that calls get_vector_store(), the embedder and the driver  *)
(* directly: it runs on the server's event loop, and from its first line   *)
(* to its return it holds no await.  A request is parsed into its model    *)
(* when it arrives, waits for the loop, and its handler then runs in two   *)
(* steps: up to the driver call on the store's connection, and from the    *)
(* driver's answer to the response.                                        *)
(***************************************************************************)
Requests == {"r1", "r2"}
Kinds == {"status", "collections", "search"}
\* request.query: 0 is the empty string, 1 a text
ApiQueries == {0, 1}
\* request.k
ApiKs == {-1, 0, 1}
\* request.filter_dict
ApiFilters == {"None", "a"}

\* a request slot nobody uses
NoRequest ==
    [kind |-> "none", pc |-> "new", query |-> 0, k |-> 0, filter |-> "None",
     store |-> "unasked", initFailed |-> FALSE, reached |-> {}, qv |-> <<>>,
     failed |-> "none", status |-> 0, detail |-> "none"]

\* VectorSearchRequest: query is any str, k any int (default 5), filter_dict
\* any dict or None; the model declares no further constraint
Validates(query, k, f) == TRUE

\* (mutant) the driver call is awaited: the handler gives up the event loop
AwaitsDriverYes == TRUE

\* the handlers call the driver as a plain function call
AwaitsDriver == FALSE

\* (mutant) the generic except clause gets hold of the HTTPException
ReraiseAs500(code) == 500

\* `except HTTPException: raise` ahead of `except Exception`
Reraise(code) == code

\* how the construction of a store from the environment ends: "ok",
\* "connect" (dbapi.connect raised), "schema" (HanaVectorStore(...) raised in
\* _init_table, after the connection was opened)
InitOutcomes == {"ok", "connect", "schema"}

Got(store, settings, connect, failed, leak) ==
    [store |-> store, settings |-> settings, connect |-> connect,
     failed |-> failed, leak |-> leak]

\* get_vector_store(): the store held by dspy.settings, or one built from the
\* environment and then kept there; None when nothing is configured or the
\* construction raised.  The environment's parameters go to dbapi.connect as
\* they are read, None for one that is missing.  The code closes no connection:
\* one that was opened for a store whose construction raised is closed only if
\* the driver does so when the object is collected (gc).
\* Answers what it returns, dspy.settings afterwards, whether dbapi.connect was
\* called, whether the construction raised, and the connections left open.
GetVectorStore(settings, init, gc) ==
    IF settings = "set" THEN Got("store", "set", FALSE, FALSE, 0)
    ELSE IF settings = "foreign" THEN Got("foreign", "foreign", FALSE, FALSE, 0)
    ELSE IF settings = "envMissing" THEN Got("None", settings, TRUE, TRUE, 0)
    ELSE IF settings = "env"
    THEN IF init = "ok" THEN Got("store", "set", TRUE, FALSE, 0)
         ELSE IF init = "connect" THEN Got("None", settings, TRUE, TRUE, 0)
         ELSE Got("None", settings, TRUE, TRUE, IF gc THEN 0 ELSE 1)
    ELSE Got("None", settings, FALSE, FALSE, 0)

Respond(rq, code, detail) ==
    [rq EXCEPT !.pc = "done", !.status = code, !.detail = detail]
Fail(rq, what, code, detail) ==
    [Respond(rq, Reraise(code), detail) EXCEPT !.failed = what]
EnterDriver(rq) ==
    [rq EXCEPT !.pc = "incall", !.reached = @ \cup {"query"}]

\* vector_store_status up to cursor.execute("SELECT 1 FROM DUMMY")
StatusStart(rq) ==
    IF rq.store = "None" THEN Respond(rq, 200, "not_configured")
    ELSE IF rq.store = "foreign" THEN Respond(rq, 200, "unknown")
    ELSE EnterDriver(rq)

\* vector_store_collections up to cursor.execute("SELECT COUNT(*) ...")
CollectionsStart(rq) ==
    IF rq.store = "None" THEN Respond(rq, Reraise(503), "Vector store is not configured")
    ELSE IF rq.store = "foreign" THEN Respond(rq, 200, "empty list")
    ELSE EnterDriver(rq)

\* vector_store_search up to vector_store.similarity_search(...)
SearchStart(rq, encodeFails) ==
    IF rq.store = "None" THEN Respond(rq, Reraise(503), "Vector store is not configured")
    ELSE IF embedder = 0
    THEN Fail(rq, "embedder", 500, "Embedder not configured or not working")
    ELSE IF encodeFails
    THEN Fail([rq EXCEPT !.reached = @ \cup {"embedder"}], "embedding", 500,
              "Error generating embedding")
    ELSE EnterDriver([rq EXCEPT !.reached = @ \cup {"embedder"},
                                !.qv = Embedding(embedder, rq.query)])

\* the handler from the driver's answer on
Finish(rq, fault) ==
    IF rq.kind = "status"
    THEN Respond(rq, 200, IF fault THEN "error" ELSE "connected")
    ELSE IF rq.kind = "collections"
    THEN IF fault
         THEN Fail(rq, "introspection", 500, "Error getting vector store collections")
         ELSE Respond(rq, 200, "collections")
    ELSE IF fault \/ (rq.store = "store" /\ ~StatementOK(rq.qv, rq.k, rq.filter))
    THEN Fail(rq, "search", 500, "Error performing similarity search")
    ELSE Respond(rq, 200, "results")

\* a request reaches the server and is parsed into its model
Arrive(r, kind, query, k, f) ==
    /\ req[r].pc \in {"new", "done"}
    /\ req' = [req EXCEPT ![r] =
          IF kind = "search"
          THEN IF Validates(query, k, f)
               THEN [NoRequest EXCEPT !.kind = kind, !.pc = "pending",
                                      !.query = query, !.k = k, !.filter = f]
               ELSE [NoRequest EXCEPT !.kind = kind, !.pc = "done", !.query = query,
                                      !.k = k, !.filter = f, !.status = 422,
                                      !.detail = "validation"]
          ELSE [NoRequest EXCEPT !.kind = kind, !.pc = "pending"]]
    /\ UNCHANGED <<loop, settingsStore, leaked>>
    /\ UNCHANGED <<storeVars, schemaVars, lifeVars, cacheVars, concVars, fwdVars, srvVars>>

\* the event loop, when it runs no handler, starts the handler of a waiting
\* request: get_vector_store() and the handler's code up to its driver call
HandlerStart(r, init, gc, encodeFails) ==
    LET got == GetVectorStore(settingsStore, init, gc)
        rq  == [req[r] EXCEPT !.store = got.store, !.initFailed = got.failed,
                              !.reached = IF got.connect THEN {"store", "connect"}
                                          ELSE {"store"}]
        nxt == IF rq.kind = "status" THEN StatusStart(rq)
               ELSE IF rq.kind = "collections" THEN CollectionsStart(rq)
               ELSE SearchStart(rq, encodeFails)
    IN  /\ req[r].pc = "pending"
        /\ loop = "none"
        /\ leaked + got.leak <= MaxLeaked
        /\ settingsStore' = got.settings
        /\ leaked' = leaked + got.leak
        /\ req' = [req EXCEPT ![r] = nxt]
        /\ loop' = IF nxt.pc = "incall" /\ ~AwaitsDriver THEN r ELSE "none"
        /\ UNCHANGED <<storeVars, schemaVars, lifeVars, cacheVars, concVars, fwdVars, srvVars>>

\* the driver answers the statement of r's handler, which runs to its response
DriverReturn(r, fault) ==
    /\ req[r].pc = "incall"
    /\ loop \in {r, "none"}
    /\ req' = [req EXCEPT ![r] = Finish(req[r], fault)]
    /\ loop' = "none"
    /\ UNCHANGED <<settingsStore, leaked>>
    /\ UNCHANGED <<storeVars, schemaVars, lifeVars, cacheVars, concVars, fwdVars, srvVars>>

(***************************************************************************)
(* The frontend server: create_app(config) and the POST endpoints          *)
(* /predict and /predict/stream, both declared with                        *)
(* dependencies=auth_dependency.                                           *)
(***************************************************************************)
Posts == {"p1", "p2"}
Endpoints == {"predict", "stream"}
\* the Authorization header of a request: absent, a bearer token jwt.decode
\* rejects, a bearer token jwt.decode accepts
Tokens == {"none", "bad", "valid"}

\* asked: the enable_auth create_app was called with; enable_auth: the
\* field as create_app leaves it
NoConfig == [asked |-> FALSE, enable_auth |-> FALSE]
\* auth_dependency: TRUE for [Depends(get_current_user)], FALSE for []
NoApp == [built |-> FALSE, auth_dependency |-> FALSE]
\* ran: the handler's body ran the DSPy program for this request
NoPost == [pc |-> "none", endpoint |-> "none", token |-> "none", status |-> 0, ran |-> FALSE]

\* create_app(config) with config.enable_auth = enable_auth; jwtImports:
\* `import jwt` succeeds.  On ImportError the except clause logs a warning
\* and sets config.enable_auth = False; auth_dependency stays [].
CreateApp(enable_auth, jwtImports) ==
    /\ ~app.built
    /\ app' = [built |-> TRUE, auth_dependency |-> (enable_auth /\ jwtImports)]
    /\ config' = [asked |-> enable_auth, enable_auth |-> (enable_auth /\ jwtImports)]
    /\ UNCHANGED call
    /\ UNCHANGED <<storeVars, schemaVars, lifeVars, cacheVars, concVars, apiVars, fwdVars>>

\* a POST to one of the two endpoints reaches the application
Post(r, endpoint, token) ==
    /\ app.built
    /\ call[r].pc \in {"none", "done"}
    /\ call' = [call EXCEPT ![r] = [NoPost EXCEPT !.pc = "arrived",
                                      !.endpoint = endpoint, !.token = token]]
    /\ UNCHANGED <<config, app>>
    /\ UNCHANGED <<storeVars, schemaVars, lifeVars, cacheVars, concVars, apiVars, fwdVars>>

\* the route's dependencies are resolved: with get_current_user among them,
\* HTTPBearer refuses a request without credentials (noCreds: the status the
\* installed FastAPI answers with) and jwt.decode's PyJWTError becomes 401
ResolveDependencies(r, noCreds) ==
    /\ call[r].pc = "arrived"
    /\ call' = [call EXCEPT ![r] =
                  IF app.auth_dependency /\ call[r].token = "none"
                  THEN [@ EXCEPT !.pc = "done", !.status = noCreds]
                  ELSE IF app.auth_dependency /\ call[r].token = "bad"
                  THEN [@ EXCEPT !.pc = "done", !.status = 401]
                  ELSE [@ EXCEPT !.pc = "handler"]]
    /\ UNCHANGED <<config, app>>
    /\ UNCHANGED <<storeVars, schemaVars, lifeVars, cacheVars, concVars, apiVars, fwdVars>>

\* the body of predict / predict_stream: the program runs; an exception
\* becomes a 500
Predict(r, fails) ==
    /\ call[r].pc = "handler"
    /\ call' = [call EXCEPT ![r] = [@ EXCEPT !.pc = "done", !.ran = TRUE,
                                      !.status = IF fails THEN 500 ELSE 200]]
    /\ UNCHANGED <<config, app>>
    /\ UNCHANGED <<storeVars, schemaVars, lifeVars, cacheVars, concVars, apiVars, fwdVars>>

(***************************************************************************)
(* Initial states and specifications.                                      *)
(***************************************************************************)
StoreIdle ==
    /\ committed = EmptyTable
    /\ working = EmptyTable
    /\ autocommit = FALSE
    /\ connOpen = TRUE
    /\ pc = "idle"
    /\ left = 0
    /\ opResult = IdleResult
    /\ closedUse = FALSE
    /\ latest = EmptyTable

SchemaIdle ==
    /\ ipc = [c \in Callers |-> "start"]
    /\ sawExists = [c \in Callers |-> FALSE]
    /\ icause = [c \in Callers |-> "none"]
    /\ tableExists = FALSE
    /\ indexExists = FALSE

LifeIdle ==
    /\ closeCalls = [s \in Stores |-> 0]
    /\ modState = [m \in Modules |-> "unbuilt"]
    /\ modStore = [m \in Modules |-> 0]
    /\ delRaised = FALSE
    /\ closeRaised = FALSE

CacheIdle ==
    /\ cache = <<>>
    /\ embedder = 0
    /\ lastCall = NoCall
    /\ prevCall = NoCall
    /\ recent = <<>>

ConcIdle ==
    flight = [th \in Threads |-> Resting]

ApiIdle ==
    /\ req = [r \in Requests |-> NoRequest]
    /\ loop = "none"
    /\ settingsStore = "none"
    /\ leaked = 0

FwdIdle ==
    /\ fwd = NoForward
    /\ held = [m \in CacheModules |-> "owned"]

SrvIdle ==
    /\ config = NoConfig
    /\ app = NoApp
    /\ call = [r \in Posts |-> NoPost]

\* ---- SpecStore: a store right after construction, on an empty table ----
InitStore ==
    /\ committed = EmptyTable
    /\ working = EmptyTable
    /\ autocommit \in BOOLEAN
    /\ connOpen = TRUE
    /\ pc = "idle"
    /\ left = 0
    /\ opResult = IdleResult
    /\ closedUse = FALSE
    /\ latest = Inputs(committed)
    /\ SchemaIdle /\ LifeIdle /\ CacheIdle /\ ConcIdle /\ ApiIdle /\ FwdIdle /\ SrvIdle

NextStore ==
    \/ \E n \in 0..MaxBatch, d \in {-1, 0} :
           n + d >= 0 /\ AddDocumentsCall(n, n + d)
    \/ \E doc \in Docs, emb \in StoreEmbeddings, fault \in BOOLEAN :
           AddDocumentsExecute(doc, emb, fault)
    \/ \E fault \in BOOLEAN : AddDocumentsCommit(fault)
    \/ \E id \in Ids, fault \in {"none", "execute", "commit"} : DeleteDocument(id, fault)
    \/ \E f \in {"None", "a"} : SimilaritySearch(<<1, 0>>, 1, f, FALSE)
    \/ \E fault \in BOOLEAN : StatusProbe(fault)
    \/ Close

SpecStore == InitStore /\ [][NextStore]_vars

\* ---- SpecTable: calls on a store that the store carries out: add_documents
\* with embeddings of the dimension, delete_document, a search for the nearest
\* record, close; and add_documents calls whose two lists differ in length ----
TableEmbeddings == {<<1, 0>>, <<2, 0>>, <<0, 1>>}

InitTable == InitStore

NextTable ==
    \/ \E n \in 0..MaxBatch, d \in {-1, 0} :
           n + d >= 0 /\ AddDocumentsCall(n, n + d)
    \/ \E doc \in Docs, emb \in TableEmbeddings : AddDocumentsExecute(doc, emb, FALSE)
    \/ AddDocumentsCommit(FALSE)
    \/ \E id \in Ids : DeleteDocument(id, "none")
    \/ \E qv \in TableEmbeddings : SimilaritySearch(qv, 1, "None", FALSE)
    \/ Close

SpecTable == InitTable /\ [][NextTable]_vars

\* ---- SpecSearch: searches over every table of records of the dimension ----
StoredRecs ==
    { [text |-> b.text, vector |-> v, metadata |-> b.metadata, call |-> "ok"] :
        b \in DocBodies, v \in Vectors }
Tables == UNION { [S -> StoredRecs] : S \in SUBSET Ids }

InitSearch ==
    /\ committed \in Tables
    /\ working = committed
    /\ autocommit = FALSE
    /\ connOpen = TRUE
    /\ pc = "idle"
    /\ left = 0
    /\ opResult = IdleResult
    /\ closedUse = FALSE
    /\ latest = Inputs(committed)
    /\ SchemaIdle /\ LifeIdle /\ CacheIdle /\ ConcIdle /\ ApiIdle /\ FwdIdle /\ SrvIdle

NextSearch ==
    \/ \E qv \in Vectors \cup BadVectors, k \in 0..MaxK, f \in Filters, fault \in BOOLEAN :
           SimilaritySearch(qv, k, f, fault)
    \/ Close

SpecSearch == InitSearch /\ [][NextSearch]_vars

\* ---- SpecSchema: callers provisioning a table that may or may not be there ----
InitSchema ==
    /\ ipc = [c \in Callers |-> "start"]
    /\ sawExists = [c \in Callers |-> FALSE]
    /\ icause = [c \in Callers |-> "none"]
    /\ tableExists \in BOOLEAN
    /\ indexExists = tableExists
    /\ StoreIdle /\ LifeIdle /\ CacheIdle /\ ConcIdle /\ ApiIdle /\ FwdIdle /\ SrvIdle

NextSchema ==
    \/ \E c \in Callers, fault \in BOOLEAN : InitTableCheck(c, fault)
    \/ \E c \in Callers, fault \in BOOLEAN : InitTableCreate(c, fault)
    \/ \E c \in Callers, fault \in BOOLEAN : InitTableIndex(c, fault)

SpecSchema == InitSchema /\ [][NextSchema]_vars

\* ---- SpecLife: modules are built on stores, stores closed, modules torn down ----
InitLife == LifeIdle /\ StoreIdle /\ SchemaIdle /\ CacheIdle /\ ConcIdle /\ ApiIdle /\ FwdIdle /\ SrvIdle

NextLife ==
    \/ \E m \in Modules, s \in Stores \cup {0} : ModuleInit(m, s)
    \/ \E s \in Stores, raises \in BOOLEAN : StoreClose(s, raises)
    \/ \E m \in Modules, raises \in BOOLEAN : Del(m, raises)

SpecLife == InitLife /\ [][NextLife]_vars

\* ---- SpecCache: _get_embedding calls and changes of the embedder ----
InitCache == CacheIdle /\ StoreIdle /\ SchemaIdle /\ LifeIdle /\ ConcIdle /\ ApiIdle /\ FwdIdle /\ SrvIdle

NextCache ==
    \/ \E m \in CacheModules, t \in Texts, fails \in BOOLEAN : GetEmbedding(m, t, fails)
    \/ \E e \in Embedders : SetEmbedder(e)

SpecCache == InitCache /\ [][NextCache]_vars

\* ---- SpecCacheConc: threads calling _get_embedding at the same time ----
InitCacheConc == InitCache

NextCacheConc ==
    \/ \E th \in Threads, m \in CacheModules, t \in Texts : CachedLookup(th, m, t)
    \/ \E th \in Threads, fails \in BOOLEAN : EncodeText(th, fails)
    \/ \E th \in Threads : CachedStore(th)
    \/ \E e \in Embedders : SetEmbedder(e)

SpecCacheConc == InitCacheConc /\ [][NextCacheConc]_vars

\* ---- SpecForward: forward calls on one module over a table of two records,
\* changes of the embedder, and the end of the module ----
ForwardTable ==
    [x \in Ids |->
        [text |-> "x", vector |-> IF x = "d1" THEN <<1, 0>> ELSE <<0, 1>>,
         metadata |-> JsonBlob("a"), call |-> "ok"]]
ForwardTexts == {1, 2}

InitForward ==
    /\ committed = ForwardTable
    /\ working = committed
    /\ autocommit = FALSE
    /\ connOpen = TRUE
    /\ pc = "idle"
    /\ left = 0
    /\ opResult = IdleResult
    /\ closedUse = FALSE
    /\ latest = Inputs(committed)
    /\ FwdIdle
    /\ SchemaIdle /\ LifeIdle /\ CacheIdle /\ ConcIdle /\ ApiIdle /\ SrvIdle

NextForward ==
    \/ \E m \in CacheModules, t \in ForwardTexts, ka \in KArgs, fails \in BOOLEAN :
           ForwardEmbed(m, t, ka, fails)
    \/ \E fault \in BOOLEAN : ForwardSearch(fault)
    \/ ForwardFormat
    \/ \E e \in {0, 1} : SetEmbedder(e)
    \/ \E m \in CacheModules : Release(m)
    \/ \E m \in CacheModules : Collect(m)

SpecForward == InitForward /\ [][NextForward]_vars

\* ---- SpecServer: an application is created, then requests are posted ----
InitServer ==
    SrvIdle /\ StoreIdle /\ SchemaIdle /\ LifeIdle /\ CacheIdle /\ ConcIdle /\ ApiIdle /\ FwdIdle

NextServer ==
    \/ \E enable_auth \in BOOLEAN, jwtImports \in BOOLEAN : CreateApp(enable_auth, jwtImports)
    \/ \E r \in Posts, endpoint \in Endpoints, token \in Tokens : Post(r, endpoint, token)
    \/ \E r \in Posts, noCreds \in {401, 403} : ResolveDependencies(r, noCreds)
    \/ \E r \in Posts, fails \in BOOLEAN : Predict(r, fails)

SpecServer == InitServer /\ [][NextServer]_vars

\* ---- SpecApi: requests to /status, /collections and /search ----
InitApi ==
    /\ req = [r \in Requests |-> NoRequest]
    /\ loop = "none"
    /\ settingsStore \in {"none", "env", "envMissing", "set", "foreign"}
    /\ leaked = 0
    /\ cache = <<>>
    /\ embedder \in {0, 1}
    /\ lastCall = NoCall
    /\ prevCall = NoCall
    /\ recent = <<>>
    /\ StoreIdle /\ SchemaIdle /\ LifeIdle /\ ConcIdle /\ FwdIdle /\ SrvIdle

NextApi ==
    \/ \E r \in Requests, kind \in Kinds, query \in ApiQueries, k \in ApiKs, f \in ApiFilters :
           Arrive(r, kind, query, k, f)
    \/ \E r \in Requests, init \in InitOutcomes, gc \in BOOLEAN, encodeFails \in BOOLEAN :
           HandlerStart(r, init, gc, encodeFails)
    \/ \E r \in Requests, fault \in BOOLEAN : DriverReturn(r, fault)

SpecApi == InitApi /\ [][NextApi]_vars

(***************************************************************************)
(* The claims.                                                             *)
(***************************************************************************)

\* C1 (SpecSchema): schema race tolerance.  Once every caller of _init_table
\* has finished and no statement failed for a reason of the store's own, every
\* caller has returned normally and the table exists.
C1_SchemaRaceTolerated ==
    ( /\ \A c \in Callers : ipc[c] \in {"done", "raised"}
      /\ \A c \in Callers : icause[c] # "fault" )
    => ( /\ \A c \in Callers : ipc[c] = "done"
         /\ tableExists )

\* C2 (SpecStore): add_documents is all-or-nothing.  No record written by an
\* add_documents call that raised while writing a record of its batch is part
\* of the committed table contents.
C2_AllOrNothing ==
    \A id \in DOMAIN committed : committed[id].call # "failed"

\* C3 (SpecSearch): a search with a non-empty filter_dict and k >= 1, on an
\* open connection and with no fault of the store, returns the records whose
\* metadata matches the filter pattern, by descending score, cut to k.
C3_FilteredSearch ==
    ( /\ opResult.op = "search"
      /\ Truthy(opResult.filter)
      /\ opResult.k >= 1
      /\ ~opResult.fault
      /\ Len(opResult.qv) = dimension )
    => ( /\ opResult.outcome = "ok"
         /\ opResult.results \in
              Ranked(working,
                     { id \in DOMAIN working :
                         Like(working[id].metadata, Pattern(opResult.filter)) },
                     opResult.qv, opResult.k) )

\* C4 (SpecSearch): a search without a filter, on an open connection and with
\* no fault of the store, over a table of N records returns min(k, N) results
\* in non-increasing order of score; over an empty table it returns the empty
\* list and raises nothing.
C4_UnfilteredSearch ==
    ( /\ opResult.op = "search"
      /\ ~Truthy(opResult.filter)
      /\ ~opResult.fault
      /\ Len(opResult.qv) = dimension )
    => ( /\ opResult.outcome = "ok"
         /\ Len(opResult.results) = Min(opResult.k, Cardinality(DOMAIN working))
         /\ \A i, j \in 1..Len(opResult.results) :
              i < j => ScoreGE(opResult.results[i].score, opResult.results[j].score) )

\* C4 witness: a search for k = 1 over two records returned one of them
C4_Witness ==
    /\ opResult.op = "search"
    /\ opResult.filter = "None"
    /\ opResult.outcome = "ok"
    /\ opResult.k = 1
    /\ Cardinality(DOMAIN working) = 2
    /\ Len(opResult.results) = 1

\* C5 (SpecLife): the transport of a store is closed at most once, whatever
\* the sequence of close() calls and module teardowns.
C5_ClosedAtMostOnce ==
    \A s \in Stores : closeCalls[s] <= 1

\* C6 (SpecStore): after close(), no operation of the store and no probe of
\* the API makes a call on the closed connection.
C6_NoUseAfterClose ==
    ~closedUse

\* C7 (SpecLife): no exception leaves SAPHanaRM.__del__.
C7_TeardownNeverRaises ==
    ~delRaised

\* C7 witness: every module is torn down, one of them was built without a
\* vector_store, and the single close() that was made, by a teardown, raised
C7_Witness ==
    /\ \A m \in Modules : modState[m] = "deleted"
    /\ \E m \in Modules : modStore[m] = 0
    /\ \E m \in Modules : modStore[m] = 1
    /\ closeCalls[1] = 1
    /\ closeRaised

\* C8 (SpecCache): cache correctness.  When a _get_embedding call returned
\* and the next call has the same module and text, that call returns the same
\* vector without invoking the embedder; and every call whose key is in the
\* cache returns the cached vector without invoking the embedder.
C8_TwoCalls ==
    (prevCall.ok /\ lastCall.key = prevCall.key)
    => (lastCall.ok /\ ~lastCall.invoked /\ lastCall.value = prevCall.value)

C8_HitSkipsEmbedder ==
    ( /\ <<cache, lastCall, prevCall>>' # <<cache, lastCall, prevCall>>
      /\ CacheHas(cache, lastCall'.key) )
    => ( /\ lastCall'.ok
         /\ ~lastCall'.invoked
         /\ lastCall'.value = CacheGet(cache, lastCall'.key) )

C8_CacheCorrectness ==
    []C8_TwoCalls /\ [][C8_HitSkipsEmbedder]_vars

\* C8 witness: a call computed a vector with one embedder, and the next call
\* for the same key returned it after the embedder was changed
C8_Witness ==
    /\ prevCall.ok
    /\ prevCall.invoked
    /\ lastCall.key = prevCall.key
    /\ lastCall.ok
    /\ embedder # 0
    /\ lastCall.value # Embedding(embedder, lastCall.key[2])

\* C9 (SpecCache): a failed computation does not poison the cache.  After a
\* call that raised, the cache holds no entry for its key; and a call that
\* follows it with the same key and returns has invoked the embedder.
C9_NoPoison ==
    /\ (lastCall # NoCall /\ ~lastCall.ok) => ~CacheHas(cache, lastCall.key)
    /\ (prevCall # NoCall /\ ~prevCall.ok /\ lastCall.key = prevCall.key /\ lastCall.ok)
         => (lastCall.invoked /\ CacheGet(cache, lastCall.key) = lastCall.value)

\* C9 witness: encode raised in a call, and the next call for the same key
\* invoked the embedder and returned its vector
C9_Witness ==
    /\ prevCall # NoCall
    /\ ~prevCall.ok
    /\ prevCall.invoked
    /\ lastCall.key = prevCall.key
    /\ lastCall.ok
    /\ lastCall.invoked

\* C10 (SpecCache): the cache never holds more than maxsize entries, it holds
\* one entry for a key, and its keys are the maxsize keys used last (a hit is
\* a use): what an insertion into a full cache evicts is the least recently
\* used entry.
C10_BoundedLRU ==
    /\ Len(cache) <= maxsize
    /\ Cardinality(CacheKeys(cache)) = Len(cache)
    /\ CacheKeys(cache) =
         { LastN(recent, maxsize)[i] : i \in 1..Len(LastN(recent, maxsize)) }

\* C10 witness: the cache is full, a key used before was evicted, and the
\* entry that was hit by the call before the insertion is still held
C10_Witness ==
    /\ Len(cache) = maxsize
    /\ Len(recent) = maxsize + 1
    /\ prevCall.ok
    /\ ~prevCall.invoked
    /\ lastCall.ok
    /\ lastCall.invoked
    /\ CacheHas(cache, prevCall.key)
    /\ cache[1].key = prevCall.key

\* C11 (SpecCacheConc): under every interleaving of concurrent _get_embedding
\* calls, a caller that returned holds a vector computed for its own text,
\* every entry of the cache holds a vector computed for the text of its key,
\* the cache holds one entry for a key, and never more than maxsize entries.
C11_ConcurrentCache ==
    /\ \A th \in Threads : flight[th].pc = "returned" =>
          \E e \in Embedders \ {0} : flight[th].value = Embedding(e, flight[th].key[2])
    /\ \A i \in 1..Len(cache) :
          \E e \in Embedders \ {0} : cache[i].value = Embedding(e, cache[i].key[2])
    /\ Cardinality(CacheKeys(cache)) = Len(cache)
    /\ Len(cache) <= maxsize

\* C11 witness: two threads missed on one key and each computed a vector, with
\* different embedders; both returned, and the cache holds one of the vectors
C11_Witness ==
    /\ \A th \in Threads : flight[th].pc = "returned"
    /\ flight["t1"].key = flight["t2"].key
    /\ flight["t1"].value # flight["t2"].value
    /\ CacheHas(cache, flight["t1"].key)
    /\ Len(cache) = maxsize

C13_NoStall ==
    \A a, b \in Requests :
        (req[a].pc = "incall" /\ req[b].pc = "pending")
        => ENABLED (\E init \in InitOutcomes, gc \in BOOLEAN, encodeFails \in BOOLEAN :
                       HandlerStart(b, init, gc, encodeFails))

\* C14 (SpecTable): add_documents called with different numbers of documents
\* and embeddings raises ValueError before any write: the call makes no call
\* on the connection (no cursor, no statement), and it leaves the table, the
\* open transaction and the caller's position as they were.
C14_MismatchState ==
    (opResult.op = "add" /\ opResult.counts[1] # opResult.counts[2])
    => (opResult.outcome = "ValueError" /\ ~opResult.driver)

C14_MismatchStep ==
    opResult'.outcome = "ValueError"
    => UNCHANGED <<committed, working, connOpen, pc, left, closedUse, latest>>

C14_MismatchRejected ==
    []C14_MismatchState /\ [][C14_MismatchStep]_vars

\* C14 witness: the mismatch is reported on a store that holds records and
\* whose connection was closed, and no call went to the closed connection
C14_Witness ==
    /\ opResult.outcome = "ValueError"
    /\ opResult.counts = <<2, 1>>
    /\ ~connOpen
    /\ ~closedUse
    /\ committed # EmptyTable

\* C15 (SpecStore): add_documents rejects a record whose vector has another
\* length than the store's dimension before the write reaches the store: no
\* such vector is handed to cursor.execute, wherever the record stands in the
\* batch.
C15_DimensionChecked ==
    ~opResult.wrongDim

C17_DeleteMissingStep ==
    ( /\ opResult'.op = "delete"
      /\ opResult'.missing # "none"
      /\ ~opResult'.fault )
    => ( /\ opResult'.outcome = "ok"
         /\ working' = working
         /\ committed' = committed
         /\ latest' = latest )

C17_DeleteIdempotent ==
    [][C17_DeleteMissingStep]_vars

\* C17 witness: an id that no row had was deleted from a table that holds
\* another record, and the call returned
C17_Witness ==
    /\ opResult.op = "delete"
    /\ opResult.missing = "d1"
    /\ opResult.outcome = "ok"
    /\ DOMAIN working = {"d2"}
    /\ DOMAIN committed = {"d2"}

\* C18 (SpecTable): round trip.  When a record d was added with vector V and
\* no other record of the table has a vector in the direction of V, a search
\* for V with k = 1 returns one result: d, with the largest similarity score
\* there is.
C18_RoundTrip ==
    ( /\ opResult.op = "search"
      /\ opResult.outcome = "ok"
      /\ opResult.k = 1
      /\ ~Truthy(opResult.filter) )
    => \A d \in DOMAIN working :
          ( /\ working[d].vector = opResult.qv
            /\ \A o \in DOMAIN working \ {d} :
                  ~SameDirection(working[o].vector, opResult.qv) )
          => ( /\ Len(opResult.results) = 1
               /\ opResult.results[1].id = d
               /\ MaxScore(opResult.results[1].score) )

\* C18 witness: of two records added, the one with the vector searched for
\* was returned ahead of the other, whose vector points elsewhere
C18_Witness ==
    /\ opResult.op = "search"
    /\ opResult.outcome = "ok"
    /\ opResult.qv = <<0, 1>>
    /\ DOMAIN working = {"d1", "d2"}
    /\ working["d2"].vector = <<0, 1>>
    /\ working["d1"].vector = <<2, 0>>
    /\ opResult.results[1].id = "d2"

\* C19 (SpecApi): POST /search validates its input first.  A request with an
\* empty query string or with k <= 0 is answered with a 4xx status, and its
\* handling reaches neither get_vector_store nor the embedder nor the store.
C19_ValidatedFirst ==
    \A r \in Requests :
        ( /\ req[r].kind = "search"
          /\ req[r].pc \in {"incall", "done"}
          /\ (req[r].query = 0 \/ req[r].k <= 0) )
        => ( /\ req[r].reached = {}
             /\ req[r].pc = "done"
             /\ req[r].status \in 400..499 )

\* C20 (SpecApi): status codes of /collections and /search.  The answer is 503
\* whenever get_vector_store gave no store, and 500 with a cause string
\* whenever the introspection query, the embedder, the embedding or the
\* similarity search failed; the 503 is never turned into a 500.
C20_StatusCodes ==
    \A r \in Requests :
        (req[r].pc = "done" /\ req[r].kind \in {"collections", "search"})
        => ( /\ req[r].store = "None" => req[r].status = 503
             /\ req[r].failed # "none" =>
                  (req[r].status = 500 /\ req[r].detail # "none") )

\* C20 witness: /collections was answered 503 for want of a store that the
\* environment names but that could not be built, and after the store was
\* built a /search whose similarity search failed was answered 500
C20_Witness ==
    /\ req["r1"].kind = "collections"
    /\ req["r1"].pc = "done"
    /\ req["r1"].status = 503
    /\ req["r2"].kind = "search"
    /\ req["r2"].pc = "done"
    /\ req["r2"].failed = "search"
    /\ req["r2"].status = 500
    /\ settingsStore = "set"

\* C21 (SpecApi): GET /status never faults.  Its answer is a normal body with
\* status 200 whose status field is not_configured when get_vector_store gave
\* no store, and connected or error after the probe; it is no other value.
C21_StatusNeverFaults ==
    \A r \in Requests :
        (req[r].kind = "status" /\ req[r].pc = "done")
        => ( /\ req[r].status = 200
             /\ req[r].detail \in {"not_configured", "connected", "error"}
             /\ req[r].store = "None" <=> req[r].detail = "not_configured" )

\* C22 (SpecApi): search requests obtain the query embedding through the
\* shared embedding cache.  Of two /search requests with the same query text
\* that both hold an embedding of it, at most one invoked embedder.encode.
C22_SearchUsesCache ==
    \A r1, r2 \in Requests :
        ( /\ r1 # r2
          /\ req[r1].kind = "search" /\ req[r2].kind = "search"
          /\ req[r1].query = req[r2].query
          /\ req[r1].qv # <<>> /\ req[r2].qv # <<>> )
        => ~("embedder" \in req[r1].reached /\ "embedder" \in req[r2].reached)

\* C25 (SpecApi): with host, user or password missing, opening a connection
\* fails before any call is made to the driver: no request's handling reaches
\* dbapi.connect.
C25_FailsBeforeConnect ==
    settingsStore = "envMissing"
    => \A r \in Requests : "connect" \notin req[r].reached

\* C26 (SpecApi): a failure to connect or to provision the schema while a
\* request is served is reported by that request's response as an error: by
\* /status as status error, by /collections and /search as a 500, and not as
\* the outcome of a deployment that asked for no store.
C26_InitFailureReported ==
    \A r \in Requests :
        (req[r].pc = "done" /\ req[r].initFailed)
        => IF req[r].kind = "status"
           THEN req[r].detail = "error"
           ELSE req[r].status = 500 /\ req[r].detail # "Vector store is not configured"

\* C28 (SpecApi): store initialisation leaks no connection: every connection
\* get_vector_store opened is held by the store it returned or was closed.
C28_NoLeakedConnection ==
    leaked = 0


\* C23 (SpecForward): forward passes the module's own k to the similarity
\* search whenever the caller passes no k or a k that is not positive (zero
\* or negative), and passes the caller's k unchanged when it is positive.
C23_DefaultK ==
    (fwd.queried /\ opResult.op = "search")
    => opResult.k = IF ~fwd.kArg.given \/ fwd.kArg.v <= 0 THEN selfK ELSE fwd.kArg.v

\* C24 (SpecForward): a forward call runs EMBED, then SEARCH, then FORMAT:
\* the store is queried only with an embedding that was obtained, the rows
\* are formatted only after the query, and a call made while no embedder is
\* configured fails in EMBED, queries nothing and adds no cache entry.
C24_EmbedSearchFormat ==
    /\ fwd.queried => fwd.qv # <<>>
    /\ (fwd.queried /\ opResult.op = "search") => opResult.qv = fwd.qv
    /\ fwd.stage \in {"FORMAT", "done"} => fwd.queried
    /\ fwd.noEmbedder =>
          /\ fwd.stage = "raised"
          /\ fwd.failedIn = "EMBED"
          /\ ~fwd.queried
          /\ ~fwd.wrote

\* C27 (SpecForward): a module its owner has released is torn down: as long
\* as it is not, its teardown (__del__, which closes the store connection)
\* can take place, also when the module served forward calls before.
C27_ReleasedIsTornDown ==
    \A m \in CacheModules : held[m] = "released" => ENABLED Collect(m)

\* C29 (SpecStore): every cursor a store operation or the /status probe
\* opened is closed when the operation returns or raises: no operation,
\* failing ones included, ends with its cursor open.
C29_CursorsClosed ==
    ~opResult.cursorOpen

\* C30 (SpecServer): when the application was created with enable_auth set,
\* /predict and /predict/stream run no prediction for a request without a
\* valid bearer token, whether or not the JWT library can be imported.
C30_AuthEnforced ==
    \A r \in Posts :
        (config.asked /\ call[r].ran) => call[r].token = "valid"

====
